---- MODULE Spec2Model ----
(***************************************************************************)
(* Model of the master/worker engine of mwfaas.                            *)
(*                                                                         *)
(* Master.run (src/master.py) is the control thread.  It is cut at its     *)
(* suspension points: the prologue up to the submission loop (RunBegin),   *)
(* one iteration of the submission loop (SubmitChunk), and the blocking    *)
(* batch collection followed by the finalisation (Collect).  The workers   *)
(* of the pool run concurrently with it (Resolve).                         *)
(*                                                                         *)
(* The pool keeps a registry task id -> future (_active_tasks) and picks   *)
(* the endpoint of a task round-robin, as GlobusComputeCloudManager does.  *)
(*                                                                         *)
(* Python indices are 0-based; the model's sequences are 1-based, so the   *)
(* chunk index i of the code is i+1 here.                                  *)
(***************************************************************************)
EXTENDS Integers, Sequences, FiniteSets, TLC

\* ------------------------------------------------------------------ bounds
MaxItems == 2
MaxWorkers == 2
MaxRuns == 2
\* the partitioners alone are tried on lists of up to MaxSplitLen items and
\* up to MaxSplits target splits
MaxSplitLen == 5
MaxSplits == 4

\* ---------------------------------------------------------- Python values
\* A Python value is a record [tag, type, val]; val is a sequence of integers.
PyNone == [tag |-> "None", type |-> "NoneType", val |-> <<>>]

PyList(s) == [tag |-> "list", type |-> "list", val |-> s]

PyInt(v) == [tag |-> "int", type |-> "int", val |-> <<v>>]

PyExc(type, about) == [tag |-> "exc", type |-> type, val |-> about]

\* isinstance(v, Exception)
IsException(v) == v.tag = "exc"

\* the id recorded for a chunk whose submission raised (Python None)
NoId == 0

Range(s) == {s[k] : k \in DOMAIN s}

Min(a, b) == IF a < b THEN a ELSE b

RECURSIVE SeqSum(_)
SeqSum(s) == IF s = <<>> THEN 0 ELSE s[1] + SeqSum(Tail(s))

\* ------------------------------------------------------------ user inputs
\* The behaviours of the user function that the runs are tried with.
CallableFunctions == {"echo", "fail_on_2", "mixed"}

UserFunctions == CallableFunctions \cup {"not_callable", "unpicklable"}

\* data_input: the list [1, ..., n]
Input(n) == [k \in 1..n |-> k]

\* The user functions of the end-to-end scenarios: sum(chunk), sum(chunk)
\* failing on a chunk that contains 20, and [x*x for x in chunk]; and a
\* function whose call fails with TypeError (it does not accept a chunk).
ScenarioFunctions == {"sum", "sum_fail_on_20", "squares", "arity_mismatch"}

\* user_function(chunk), raising mapped to a raised flag
CallUser(fn, chunk) ==
    CASE fn = "echo" -> [raised |-> FALSE, value |-> PyList(chunk)]
      [] fn = "sum" -> [raised |-> FALSE, value |-> PyInt(SeqSum(chunk))]
      [] fn = "squares" ->
            [raised |-> FALSE,
             value |-> PyList([k \in DOMAIN chunk |-> chunk[k] * chunk[k]])]
      [] fn = "arity_mismatch" ->
            [raised |-> TRUE, value |-> PyExc("TypeError", chunk)]
      [] fn = "sum_fail_on_20" ->
            IF 20 \in Range(chunk)
            THEN [raised |-> TRUE, value |-> PyExc("UserError", chunk)]
            ELSE [raised |-> FALSE, value |-> PyInt(SeqSum(chunk))]
      [] fn = "fail_on_2" ->
            IF 2 \in Range(chunk)
            THEN [raised |-> TRUE, value |-> PyExc("UserError", chunk)]
            ELSE [raised |-> FALSE, value |-> PyList(chunk)]
      [] OTHER ->
            IF 1 \in Range(chunk)
            THEN [raised |-> FALSE, value |-> PyNone]
            ELSE IF 2 \in Range(chunk)
                 THEN [raised |-> TRUE, value |-> PyExc("UserError", chunk)]
                 ELSE [raised |-> FALSE, value |-> PyList(chunk)]

\* Slave.execute_task: returns the function's result, re-raises its error
SlaveExecuteTask(fn, chunk) == CallUser(fn, chunk)

\* _execute_task_in_worker_process: the worker's return value; an exception
\* raised by the task is returned as a value
ExecuteTaskInWorker(fn, chunk) == SlaveExecuteTask(fn, chunk).value

\* ------------------------------------------------------------ partitioners
RECURSIVE SplitLoopNoRemainder(_, _, _, _, _)
SplitLoopNoRemainder(xs, K, i, current_pos, chunks) ==
    IF i > K THEN chunks
    ELSE LET chunk_size == Len(xs) \div K
             chunk == SubSeq(xs, current_pos + 1, current_pos + chunk_size)
         IN SplitLoopNoRemainder(xs, K, i + 1, current_pos + chunk_size,
                                 Append(chunks, chunk))

RECURSIVE SplitLoopLargerLast(_, _, _, _, _)
SplitLoopLargerLast(xs, K, i, current_pos, chunks) ==
    IF i > K THEN chunks
    ELSE LET base_size == Len(xs) \div K
             remainder == Len(xs) % K
             chunk_size == base_size + (IF i > K - remainder THEN 1 ELSE 0)
             chunk == SubSeq(xs, current_pos + 1, current_pos + chunk_size)
         IN SplitLoopLargerLast(xs, K, i + 1, current_pos + chunk_size,
                                Append(chunks, chunk))

RECURSIVE SplitLoop(_, _, _, _, _)
SplitLoop(xs, K, i, current_pos, chunks) ==
    IF i > K THEN chunks
    ELSE LET base_size == Len(xs) \div K
             remainder == Len(xs) % K
             chunk_size == base_size + (IF i <= remainder THEN 1 ELSE 0)
             chunk == SubSeq(xs, current_pos + 1, current_pos + chunk_size)
         IN SplitLoop(xs, K, i + 1, current_pos + chunk_size,
                      Append(chunks, chunk))

ListSplitDataCapped(xs, K) ==
    IF K <= 0 THEN [raised |-> TRUE, chunks |-> <<>>]
    ELSE IF xs = <<>> THEN [raised |-> FALSE, chunks |-> <<>>]
    ELSE [raised |-> FALSE,
          chunks |-> SplitLoop(xs, Min(K, Len(xs)), 1, 0, <<>>)]

ListSplitDataNoEmptyRule(xs, K) ==
    IF K <= 0 THEN [raised |-> TRUE, chunks |-> <<>>]
    ELSE [raised |-> FALSE, chunks |-> SplitLoop(xs, K, 1, 0, <<>>)]

ListSplitDataEmptyFirst(xs, K) ==
    IF xs = <<>> THEN [raised |-> FALSE, chunks |-> <<>>]
    ELSE IF K <= 0 THEN [raised |-> TRUE, chunks |-> <<>>]
    ELSE [raised |-> FALSE, chunks |-> SplitLoop(xs, K, 1, 0, <<>>)]

\* ListDistributionStrategy.split_data (and DefaultDistributionStrategy)
ListSplitData(xs, K) ==
    IF K <= 0 THEN [raised |-> TRUE, chunks |-> <<>>]
    ELSE IF xs = <<>> THEN [raised |-> FALSE, chunks |-> <<>>]
    ELSE [raised |-> FALSE, chunks |-> SplitLoop(xs, K, 1, 0, <<>>)]

SingleSplitDataAsList(xs, K) == ListSplitData(xs, K)

\* SingleDistribuitionStrategy.split_data
SingleSplitData(xs, K) ==
    IF K < 1 THEN [raised |-> TRUE, chunks |-> <<>>]
    ELSE [raised |-> FALSE, chunks |-> <<xs>>]

\* A user-defined DistributionStrategy (the interface is pluggable): one
\* chunk per item, whatever the number of target splits.
ItemSplitData(xs, K) ==
    [raised |-> FALSE, chunks |-> [k \in 1..Len(xs) |-> <<xs[k]>>]]

Strategies == {"list", "single", "item"}

SplitData(s, xs, K) ==
    CASE s = "list" -> ListSplitData(xs, K)
      [] s = "single" -> SingleSplitData(xs, K)
      [] OTHER -> ItemSplitData(xs, K)

\* ------------------------------------------------------------------- state
VARIABLES
    pool_api,          \* the interface the pool object implements
    num_workers,       \* the pool's active workers/endpoints
    strategy,          \* Master.distribution_strategy
    active_tasks,      \* pool registry: task id -> future
    next_endpoint_idx, \* pool round-robin counter
    next_task_id,      \* the next fresh task id (uuid4 never repeats)
    pc,                \* position of Master.run
    raised,            \* the exception run raised ("" when none)
    user_fn,           \* the function serialized for this run
    data_chunks,       \* data_chunks
    next_i,            \* loop variable of the submission loop
    collected,         \* collected_results_ordered
    tasks_for_result_collection,
    task_metadata,     \* Master._task_metadata
    run_result,        \* the list run returned
    submit_log,        \* the submit_task calls of this run, in order
    runs,              \* number of run calls so far
    data_input,        \* the data_input argument of the last run call
    arg_fn,            \* the user_function argument of the last run call
    split_called,      \* the last run call reached split_data
    reduce_calls,      \* the argument lists the aggregator was invoked with
    reduce_out,        \* how the last reduce call ended, and with what
    part_in,           \* arguments of a direct split_data call
    part_out,          \* its outcome
    pool_kind,         \* LocalCloudManager or GlobusComputeCloudManager
    pool_open,         \* local pool: _pool is not None
    active_endpoint_ids, \* remote pool: active_endpoint_ids
    executors,         \* remote pool: the keys of _executors
    shut,              \* shutdown() returned, no re-initialisation since
    stale_ids,         \* the task ids issued before the executors/pool
                       \* were last shut down
    last_op,           \* the last call on the pool and how it ended
    fetch,             \* the get_all_results_for_ids call just made
    endpoint_status,   \* remote pool: what get_endpoint_status reports
    ctor,              \* remote pool: the arguments of __init__
    selections,        \* remote pool: the positions submit_task selected
    reconfigured,      \* remote pool: executors initialised again since
                       \* __init__
    scope,             \* the "with pool:" block of the client
    earlier_fetch,     \* a collection that returned earlier, the
                       \* registry not cleared since
    collect_log        \* the get_results_for_ids call of this run

vars == <<pool_api, num_workers, strategy, active_tasks, next_endpoint_idx,
          next_task_id, pc, raised, user_fn, data_chunks, next_i, collected,
          tasks_for_result_collection, task_metadata, run_result,
          submit_log, runs, data_input, arg_fn, split_called, reduce_calls,
          reduce_out, part_in, part_out, pool_kind, pool_open,
          active_endpoint_ids, executors, shut, stale_ids, last_op, fetch,
          endpoint_status, ctor, selections, reconfigured, scope,
          earlier_fetch, collect_log>>

runArgs == <<data_input, arg_fn, split_called>>

reduceVars == <<reduce_calls, reduce_out>>

partVars == <<part_in, part_out>>

\* the life cycle of a shipped pool and the record of the calls made on it
lifeVars == <<pool_kind, pool_open, active_endpoint_ids, executors, shut,
              stale_ids, last_op, fetch>>

poolVars == <<pool_api, num_workers, strategy>>

\* what the specifications of single claims record besides
obsVars == <<endpoint_status, ctor, selections, reconfigured, scope,
             earlier_fetch, collect_log>>

\* "CloudManager": the interface master.py is written against
\* (get_worker_count, submit_task, get_results_for_ids);
\* "BaseCloudManager": the interface the shipped pools implement
\* (get_target_parallelism, submit_task, get_all_results_for_ids).
PoolApis == {"CloudManager", "BaseCloudManager"}

\* no call made on the pool yet
NoOp == [op |-> "none", raised |-> FALSE, id |-> NoId, after_shutdown |-> FALSE]

NoFetch == [state |-> "none", ids |-> <<>>, timeout |-> FALSE, out |-> <<>>]

\* The Master's specifications do not exercise the life cycle of the pool:
\* it stays as constructed.
LifeIdle ==
    /\ pool_kind = "local"
    /\ pool_open = TRUE
    /\ active_endpoint_ids = <<>>
    /\ executors = {}
    /\ shut = FALSE
    /\ stale_ids = {}
    /\ last_op = NoOp
    /\ fetch = NoFetch

\* the endpoints of the remote service
Endpoints == {"ep1", "ep2"}

\* no configuration file at config_file_path
NoConfig == [kind |-> "missing", ids |-> <<>>]

\* the client has not entered "with pool:" yet
NoScope == [state |-> "none", exc |-> "", propagated |-> ""]

NoCollect == [called |-> FALSE, raised |-> FALSE, count |-> 0]

\* Nothing is recorded where the specification does not ask for it.
ObsIdle ==
    /\ endpoint_status = [e \in Endpoints |-> "online"]
    /\ ctor = [endpoint_ids |-> <<>>, config |-> NoConfig]
    /\ selections = <<>>
    /\ reconfigured = FALSE
    /\ scope = NoScope
    /\ earlier_fetch = NoFetch
    /\ collect_log = NoCollect

Init ==
    /\ pool_api \in PoolApis
    /\ num_workers \in 0..MaxWorkers
    /\ strategy \in Strategies
    /\ active_tasks = <<>>
    /\ next_endpoint_idx = 0
    /\ next_task_id = 1
    /\ pc = "idle"
    /\ raised = ""
    /\ user_fn = "echo"
    /\ data_chunks = <<>>
    /\ next_i = 1
    /\ collected = <<>>
    /\ tasks_for_result_collection = <<>>
    /\ task_metadata = <<>>
    /\ run_result = <<>>
    /\ submit_log = <<>>
    /\ runs = 0
    /\ data_input = <<>>
    /\ arg_fn = "echo"
    /\ split_called = FALSE
    /\ reduce_calls = <<>>
    /\ reduce_out = [state |-> "none", value |-> PyNone, agg |-> ""]
    /\ part_in = [strategy |-> "list", xs |-> <<>>, K |-> 1]
    /\ part_out = [state |-> "none", chunks |-> <<>>]
    /\ LifeIdle
    /\ ObsIdle

masterLocals == <<data_chunks, next_i, collected, tasks_for_result_collection>>

\* ----------------------------------------------------------- Master.run
WorkerCountNonNegative(w) == w >= 0

\* the check of get_worker_count()'s return value
WorkerCountOk(w) == w > 0

AnythingCallable(fn) == TRUE

\* callable(user_function)
IsCallable(fn) == fn # "not_callable"

\* cloudpickle.dumps(user_function) succeeds
Serializable(fn) == fn # "unpicklable"

\* The prologue of run up to the submission loop: where it leaves run
\* (raised / returned [] / entering the loop) and the chunks.
Prologue(fn, xs) ==
    IF ~IsCallable(fn)
    THEN [pc |-> "raised", exc |-> "TypeError", chunks |-> <<>>,
          split |-> FALSE]
    ELSE IF ~Serializable(fn)
    THEN [pc |-> "raised", exc |-> "PicklingError", chunks |-> <<>>,
          split |-> FALSE]
    ELSE IF pool_api # "CloudManager"
    THEN [pc |-> "raised", exc |-> "AttributeError", chunks |-> <<>>,
          split |-> FALSE]
    ELSE IF ~WorkerCountOk(num_workers)
    THEN [pc |-> "raised", exc |-> "RuntimeError", chunks |-> <<>>,
          split |-> FALSE]
    ELSE LET split == SplitData(strategy, xs, num_workers)
         IN IF split.raised
            THEN [pc |-> "raised", exc |-> "ValueError", chunks |-> <<>>,
                  split |-> TRUE]
            ELSE IF split.chunks = <<>> /\ xs = <<>>
            THEN [pc |-> "done", exc |-> "", chunks |-> <<>>, split |-> TRUE]
            ELSE IF split.chunks = <<>>
            THEN [pc |-> "collect", exc |-> "", chunks |-> <<>>,
                  split |-> TRUE]
            ELSE [pc |-> "submit", exc |-> "", chunks |-> split.chunks,
                  split |-> TRUE]

KeepTaskMetadata(meta) == meta

\* self._task_metadata = [] at the start of run
ResetTaskMetadata(meta) == <<>>

\* A call run(xs, fn) up to its submission loop.
RunOn(xs, fn) ==
    /\ pc \in {"idle", "done", "raised"}
    /\ LET p == Prologue(fn, xs)
       IN /\ pc' = p.pc
          /\ raised' = p.exc
          /\ data_chunks' = p.chunks
          /\ collected' = [k \in 1..Len(p.chunks) |-> PyNone]
          /\ split_called' = p.split
    /\ user_fn' = IF IsCallable(fn) /\ Serializable(fn) THEN fn ELSE user_fn
    /\ data_input' = xs
    /\ arg_fn' = fn
    /\ reduce_calls' = <<>>
    /\ reduce_out' = [state |-> "none", value |-> PyNone, agg |-> ""]
    /\ task_metadata' = ResetTaskMetadata(task_metadata)
    /\ tasks_for_result_collection' = <<>>
    /\ next_i' = 1
    /\ run_result' = <<>>
    /\ submit_log' = <<>>
    /\ runs' = runs + 1
    /\ UNCHANGED <<poolVars, active_tasks, next_endpoint_idx, next_task_id,
                   partVars, lifeVars,
                   obsVars>>

RunBegin(n, fn) ==
    /\ runs < MaxRuns
    /\ RunOn(Input(n), fn)

\* the error submit_task raises for the chunk of index i
SubmitError(i) == PyExc("RuntimeError:submit", <<i>>)

NextChunkRetry(i, accepted) == IF accepted THEN i + 1 ELSE i

\* the loop variable after the iteration for chunk i
NextChunk(i, accepted) == i + 1

DropSubmitError(c, i, e) == c

\* collected_results_ordered after the submission of chunk i raised e
StoreSubmitError(c, i, e) == [c EXCEPT ![i] = e]

SelectFirstEndpoint(idx, w) == 0

\* the endpoint submit_task selects
SelectEndpoint(idx, w) == idx % w

\* One iteration of the submission loop, with the pool's submit_task.
SubmitChunk(accepted) ==
    /\ pc = "submit"
    /\ next_i <= Len(data_chunks)
    /\ LET i == next_i
           has_executors == num_workers > 0
           ok == has_executors /\ accepted
       IN /\ IF has_executors
             THEN next_endpoint_idx' = next_endpoint_idx + 1
             ELSE UNCHANGED next_endpoint_idx
          /\ IF ok
             THEN /\ active_tasks' = (next_task_id :>
                        [chunk |-> data_chunks[i], fn |-> user_fn,
                         worker |-> SelectEndpoint(next_endpoint_idx, num_workers),
                         done |-> FALSE, result |-> PyNone]) @@ active_tasks
                  /\ next_task_id' = next_task_id + 1
                  /\ tasks_for_result_collection' =
                        Append(tasks_for_result_collection,
                               [original_index |-> i, id |-> next_task_id])
                  /\ task_metadata' = Append(task_metadata,
                        [id |-> next_task_id, chunk_index |-> i,
                         status |-> "submitted", detail |-> PyNone])
                  /\ UNCHANGED collected
             ELSE /\ task_metadata' = Append(task_metadata,
                        [id |-> NoId, chunk_index |-> i,
                         status |-> "submission_failed",
                         detail |-> SubmitError(i)])
                  /\ collected' = StoreSubmitError(collected, i, SubmitError(i))
                  /\ UNCHANGED <<active_tasks, next_task_id,
                                 tasks_for_result_collection>>
          /\ submit_log' = Append(submit_log,
                [chunk_index |-> i, raised |-> ~ok,
                 id |-> IF ok THEN next_task_id ELSE NoId])
          /\ next_i' = NextChunk(i, ok)
          /\ pc' = IF next_i' > Len(data_chunks) THEN "collect" ELSE "submit"
    /\ UNCHANGED <<poolVars, raised, user_fn, data_chunks, run_result, runs,
                   runArgs, reduceVars, partVars, lifeVars,
                   obsVars>>

\* ----------------------------------------------------------------- workers
\* the task ids the runs can issue: at most one per chunk and run
TaskIds == 1..(MaxRuns * (MaxItems + MaxWorkers))

\* A worker completes the task of a future.
Resolve(id) ==
    /\ id \in DOMAIN active_tasks
    /\ ~active_tasks[id].done
    /\ LET t == active_tasks[id]
       IN active_tasks' = [active_tasks EXCEPT ![id] =
            [t EXCEPT !.done = TRUE,
                      !.result = ExecuteTaskInWorker(t.fn, t.chunk)]]
    /\ UNCHANGED <<poolVars, next_endpoint_idx, next_task_id, pc, raised,
                   user_fn, masterLocals, task_metadata, run_result,
                   submit_log, runs, runArgs, reduceVars, partVars, lifeVars,
                   obsVars>>

\* -------------------------------------------------------------- collection
\* task_ids_to_fetch
TaskIdsToFetch(tasks) ==
    LET withId == SelectSeq(tasks, LAMBDA t : t.id # NoId)
    IN [k \in 1..Len(withId) |-> withId[k].id]

\* get_all_results_for_ids: one outcome per id, in the order of the ids
GetAllResultsForIds(ids) ==
    [k \in 1..Len(ids) |->
        IF ids[k] \in DOMAIN active_tasks
        THEN active_tasks[ids[k]].result
        ELSE PyExc("KeyError", <<ids[k]>>)]

ResultsReadyForEveryChunk(ids) ==
    /\ Len(ids) = Len(data_chunks)
    /\ \A k \in 1..Len(ids) :
        ids[k] \in DOMAIN active_tasks => active_tasks[ids[k]].done

\* the blocking future.result() calls of the collection have all returned
ResultsReady(ids) ==
    \A k \in 1..Len(ids) :
        ids[k] \in DOMAIN active_tasks => active_tasks[ids[k]].done

\* next(m for m in _task_metadata if m["id"] == id): position, 0 when none
MetaRecord(meta, id) ==
    IF \E m \in 1..Len(meta) : meta[m].id = id
    THEN CHOOSE m \in 1..Len(meta) :
            /\ meta[m].id = id
            /\ \A m2 \in 1..(m - 1) : meta[m2].id # id
    ELSE 0

SetMeta(meta, id, status, detail) ==
    LET m == MetaRecord(meta, id)
    IN IF m = 0 THEN meta
       ELSE [meta EXCEPT ![m] = [@ EXCEPT !.status = status, !.detail = detail]]

\* the loop "for idx, outcome in enumerate(task_outcomes)"
RECURSIVE RecordOutcomes(_, _, _, _)
RecordOutcomes(outcomes, tasks, idx, st) ==
    IF idx > Len(outcomes) THEN st
    ELSE LET original_chunk_index == tasks[idx].original_index
             outcome == outcomes[idx]
             status == IF IsException(outcome) THEN "failed" ELSE "completed"
         IN RecordOutcomes(outcomes, tasks, idx + 1,
               [collected |-> [st.collected EXCEPT
                                  ![original_chunk_index] = outcome],
                meta |-> SetMeta(st.meta, tasks[idx].id, status, outcome)])

InternalError == PyExc("RuntimeError:unexpected_none", <<>>)

FinalizeKeepNone(c) == c

\* final_results from collected_results_ordered
Finalize(c) ==
    [k \in 1..Len(c) |-> IF c[k] = PyNone THEN InternalError ELSE c[k]]

\* The batch collection (blocking) and the finalisation; run returns.
\* The pool returns exactly one outcome per requested id and does not raise,
\* so run takes the branch for consistent counts.
Collect ==
    /\ pc = "collect"
    /\ LET ids == TaskIdsToFetch(tasks_for_result_collection)
       IN /\ ResultsReady(ids)
          /\ LET st == IF ids = <<>>
                       THEN [collected |-> collected, meta |-> task_metadata]
                       ELSE RecordOutcomes(GetAllResultsForIds(ids),
                                tasks_for_result_collection, 1,
                                [collected |-> collected,
                                 meta |-> task_metadata])
             IN /\ collected' = st.collected
                /\ task_metadata' = st.meta
                /\ run_result' = Finalize(st.collected)
    /\ pc' = "done"
    /\ UNCHANGED <<poolVars, active_tasks, next_endpoint_idx, next_task_id,
                   raised, user_fn, data_chunks, next_i,
                   tasks_for_result_collection, submit_log, runs, runArgs,
                   reduceVars, partVars, lifeVars,
                   obsVars>>

Next ==
    \/ \E n \in 0..MaxItems, fn \in UserFunctions : RunBegin(n, fn)
    \/ \E accepted \in BOOLEAN : SubmitChunk(accepted)
    \/ \E id \in TaskIds : Resolve(id)
    \/ Collect

Spec == Init /\ [][Next]_vars

\* the first run call on a freshly constructed Master
FirstRun(n, fn) == runs = 0 /\ RunBegin(n, fn)

LiveNext ==
    \/ \E n \in 0..MaxItems, fn \in UserFunctions : FirstRun(n, fn)
    \/ \E accepted \in BOOLEAN : SubmitChunk(accepted)
    \/ \E id \in TaskIds : Resolve(id)
    \/ Collect

\* One run call: the control thread keeps running and every submitted task
\* resolves.
LiveSpec ==
    /\ Init
    /\ [][LiveNext]_vars
    /\ WF_vars(\E accepted \in BOOLEAN : SubmitChunk(accepted))
    /\ WF_vars(Collect)
    /\ WF_vars(\E id \in TaskIds : Resolve(id))

\* ------------------------------------------------------------ Master.reduce
\* The aggregators reduce is tried with: concatenation of lists, sum of
\* numbers.
Aggregators == {"concat", "sum"}

RECURSIVE Flatten(_)
Flatten(values) ==
    IF values = <<>> THEN <<>> ELSE values[1].val \o Flatten(Tail(values))

\* reduce_function(successful_results): a list that the aggregator cannot
\* iterate or add makes it raise TypeError
CallAggregator(agg, args) ==
    LET wanted == IF agg = "concat" THEN "list" ELSE "int"
    IN IF \E k \in DOMAIN args : args[k].tag # wanted
       THEN [raised |-> TRUE, value |-> PyExc("TypeError", <<>>)]
       ELSE IF agg = "concat"
       THEN [raised |-> FALSE, value |-> PyList(Flatten(args))]
       ELSE [raised |-> FALSE, value |-> PyInt(SeqSum(Flatten(args)))]

KeepAllResults(results) == results

\* successful_results
SuccessfulResults(results) ==
    SelectSeq(results, LAMBDA r : ~IsException(r))

AlwaysAggregate(successful) == TRUE

\* the test "if not successful_results" is false
HasSuccessful(successful) == successful # <<>>

SwallowAggregatorError(e, agg) ==
    [state |-> "returned", value |-> PyNone, agg |-> agg]

\* "except Exception as e: ... raise e"
OnAggregatorError(e, agg) == [state |-> "raised", value |-> e, agg |-> agg]

\* reduce(results_list, reduce_function): the aggregator's invocations and
\* how reduce ends
ReduceOutcome(results, agg) ==
    LET successful == SuccessfulResults(results)
    IN IF ~HasSuccessful(successful)
       THEN [calls |-> <<>>,
             out |-> [state |-> "returned", value |-> PyNone, agg |-> agg]]
       ELSE LET r == CallAggregator(agg, successful)
            IN [calls |-> <<successful>>,
                out |-> IF r.raised
                        THEN OnAggregatorError(r.value, agg)
                        ELSE [state |-> "returned", value |-> r.value,
                              agg |-> agg]]

\* The caller reduces the list the last run returned.
Reduce(agg) ==
    /\ pc = "done"
    /\ reduce_out.state = "none"
    /\ LET r == ReduceOutcome(run_result, agg)
       IN /\ reduce_calls' = r.calls
          /\ reduce_out' = r.out
    /\ UNCHANGED <<poolVars, active_tasks, next_endpoint_idx, next_task_id, pc,
                   raised, user_fn, masterLocals, task_metadata, run_result,
                   submit_log, runs, runArgs, partVars, lifeVars,
                   obsVars>>

ReduceNext ==
    \/ \E n \in 0..MaxItems, fn \in UserFunctions \cup ScenarioFunctions :
            FirstRun(n, fn)
    \/ \E accepted \in BOOLEAN : SubmitChunk(accepted)
    \/ \E id \in TaskIds : Resolve(id)
    \/ Collect
    \/ \E agg \in Aggregators : Reduce(agg)

\* One run call on a fresh Master followed by reduce on its result.
ReduceSpec == Init /\ [][ReduceNext]_vars

\* ------------------------------------------------------ end-to-end scenarios
\* Scenario A: [1..7] summed per chunk by 3 workers.  Scenario B: [1..5]
\* squared by 2 workers.  Scenario C: the empty input on 4 workers.
\* Scenario D: [10,20,30] on 2 workers with a function that fails on a chunk
\* containing 20.
ScenarioA == [input |-> <<1, 2, 3, 4, 5, 6, 7>>, workers |-> 3, fn |-> "sum"]

ScenarioD == [input |-> <<10, 20, 30>>, workers |-> 2, fn |-> "sum_fail_on_20"]

ScenarioB == [input |-> <<1, 2, 3, 4, 5>>, workers |-> 2, fn |-> "squares"]

ScenarioC == [input |-> <<>>, workers |-> 4, fn |-> "sum"]

Scenarios == {ScenarioA, ScenarioB, ScenarioC, ScenarioD}

\* the interface of LocalCloudManager
LocalPool == "BaseCloudManager"

\* A Master over a pool with the scenario's number of workers and the
\* list (even-split) strategy.
ScenarioInit ==
    /\ pool_api \in PoolApis
    /\ num_workers \in {s.workers : s \in Scenarios}
    /\ strategy = "list"
    /\ active_tasks = <<>>
    /\ next_endpoint_idx = 0
    /\ next_task_id = 1
    /\ pc = "idle"
    /\ raised = ""
    /\ user_fn = "echo"
    /\ data_chunks = <<>>
    /\ next_i = 1
    /\ collected = <<>>
    /\ tasks_for_result_collection = <<>>
    /\ task_metadata = <<>>
    /\ run_result = <<>>
    /\ submit_log = <<>>
    /\ runs = 0
    /\ data_input = <<>>
    /\ arg_fn = "echo"
    /\ split_called = FALSE
    /\ reduce_calls = <<>>
    /\ reduce_out = [state |-> "none", value |-> PyNone, agg |-> ""]
    /\ part_in = [strategy |-> "list", xs |-> <<>>, K |-> 1]
    /\ part_out = [state |-> "none", chunks |-> <<>>]
    /\ LifeIdle
    /\ ObsIdle

\* master.run(s.input, s.fn) on a fresh Master
ScenarioRun(s) ==
    /\ runs = 0
    /\ num_workers = s.workers
    /\ RunOn(s.input, s.fn)

ScenarioNext ==
    \/ \E s \in Scenarios : ScenarioRun(s)
    \/ \E accepted \in BOOLEAN : SubmitChunk(accepted)
    \/ \E id \in TaskIds : Resolve(id)
    \/ Collect
    \/ \E agg \in Aggregators : Reduce(agg)

ScenarioSpec == ScenarioInit /\ [][ScenarioNext]_vars

\* ------------------------------------------------- split_data on its own
\* A strategy's split_data is about to be called on a list of up to
\* MaxSplitLen items with a number of target splits up to MaxSplits
\* (non-positive numbers included).
PartitionInit ==
    /\ pool_api = "CloudManager"
    /\ num_workers = 1
    /\ strategy = "list"
    /\ active_tasks = <<>>
    /\ next_endpoint_idx = 0
    /\ next_task_id = 1
    /\ pc = "idle"
    /\ raised = ""
    /\ user_fn = "echo"
    /\ data_chunks = <<>>
    /\ next_i = 1
    /\ collected = <<>>
    /\ tasks_for_result_collection = <<>>
    /\ task_metadata = <<>>
    /\ run_result = <<>>
    /\ submit_log = <<>>
    /\ runs = 0
    /\ data_input = <<>>
    /\ arg_fn = "echo"
    /\ split_called = FALSE
    /\ reduce_calls = <<>>
    /\ reduce_out = [state |-> "none", value |-> PyNone, agg |-> ""]
    /\ part_in \in [strategy : Strategies,
                    xs : {Input(n) : n \in 0..MaxSplitLen},
                    K : (0 - 1)..MaxSplits]
    /\ part_out = [state |-> "none", chunks |-> <<>>]
    /\ LifeIdle
    /\ ObsIdle

\* strategy.split_data(data_input, num_target_splits)
SplitCall ==
    /\ part_out.state = "none"
    /\ LET r == SplitData(part_in.strategy, part_in.xs, part_in.K)
       IN part_out' = [state |-> IF r.raised THEN "raised" ELSE "returned",
                       chunks |-> r.chunks]
    /\ UNCHANGED <<poolVars, active_tasks, next_endpoint_idx, next_task_id, pc,
                   raised, user_fn, masterLocals, task_metadata, run_result,
                   submit_log, runs, runArgs, reduceVars, part_in,
                   lifeVars,
                   obsVars>>

PartitionNext == SplitCall

PartitionSpec == PartitionInit /\ [][PartitionNext]_vars

\* ------------------------------------------- the whole-input strategy
\* SingleDistribuitionStrategy on its own (split_data called with any number
\* of target splits) and under a Master that runs with it.
WholeInputInit ==
    /\ pool_api \in PoolApis
    /\ num_workers \in 0..MaxWorkers
    /\ strategy = "single"
    /\ active_tasks = <<>>
    /\ next_endpoint_idx = 0
    /\ next_task_id = 1
    /\ pc = "idle"
    /\ raised = ""
    /\ user_fn = "echo"
    /\ data_chunks = <<>>
    /\ next_i = 1
    /\ collected = <<>>
    /\ tasks_for_result_collection = <<>>
    /\ task_metadata = <<>>
    /\ run_result = <<>>
    /\ submit_log = <<>>
    /\ runs = 0
    /\ data_input = <<>>
    /\ arg_fn = "echo"
    /\ split_called = FALSE
    /\ reduce_calls = <<>>
    /\ reduce_out = [state |-> "none", value |-> PyNone, agg |-> ""]
    /\ part_in \in [strategy : {"single"},
                    xs : {Input(n) : n \in 0..MaxSplitLen},
                    K : (0 - 1)..MaxSplits]
    /\ part_out = [state |-> "none", chunks |-> <<>>]
    /\ LifeIdle
    /\ ObsIdle

WholeInputNext ==
    \/ SplitCall
    \/ \E n \in 0..MaxItems, fn \in UserFunctions : FirstRun(n, fn)
    \/ \E accepted \in BOOLEAN : SubmitChunk(accepted)
    \/ \E id \in TaskIds : Resolve(id)
    \/ Collect

WholeInputSpec == WholeInputInit /\ [][WholeInputNext]_vars

\* --------------------------------------------------- the shipped pools
\* LocalCloudManager and GlobusComputeCloudManager on their own: a client
\* thread calls submit_task, get_all_results_for_ids, shutdown and (remote
\* pool) re-initialises the executors, while the workers complete tasks.
MaxPoolTasks == 2
MaxFetchLen == 2

PoolKinds == {"local", "globus"}

\* the endpoint id lists a remote pool is given
EndpointLists == {<<>>, <<"ep1">>, <<"ep1", "ep2">>}

\* the id lists results are asked for: ids issued or never issued, repeated
\* or not
FetchLists ==
    UNION {[1..n -> 1..(MaxPoolTasks + 1)] : n \in 0..MaxFetchLen}

masterVars == <<pc, raised, user_fn, masterLocals, task_metadata, run_result,
                submit_log, runs, runArgs, reduceVars, partVars>>

\* _initialize_executors: the endpoints for which an Executor was created
NewActiveIds(endpoint_ids_to_init, usable) ==
    SelectSeq(endpoint_ids_to_init, LAMBDA e : e \in usable)

PoolInit ==
    /\ pool_api = "BaseCloudManager"
    /\ pool_kind \in PoolKinds
    /\ num_workers = MaxWorkers
    /\ pool_open = (pool_kind = "local")
    /\ active_endpoint_ids \in
            IF pool_kind = "local" THEN {<<>>}
            ELSE {NewActiveIds(l, u) : l \in EndpointLists,
                                       u \in SUBSET Endpoints}
    /\ executors = Range(active_endpoint_ids)
    /\ shut = FALSE
    /\ stale_ids = {}
    /\ last_op = NoOp
    /\ fetch = NoFetch
    /\ strategy = "list"
    /\ active_tasks = <<>>
    /\ next_endpoint_idx = 0
    /\ next_task_id = 1
    /\ pc = "idle"
    /\ raised = ""
    /\ user_fn = "echo"
    /\ data_chunks = <<>>
    /\ next_i = 1
    /\ collected = <<>>
    /\ tasks_for_result_collection = <<>>
    /\ task_metadata = <<>>
    /\ run_result = <<>>
    /\ submit_log = <<>>
    /\ runs = 0
    /\ data_input = <<>>
    /\ arg_fn = "echo"
    /\ split_called = FALSE
    /\ reduce_calls = <<>>
    /\ reduce_out = [state |-> "none", value |-> PyNone, agg |-> ""]
    /\ part_in = [strategy |-> "list", xs |-> <<>>, K |-> 1]
    /\ part_out = [state |-> "none", chunks |-> <<>>]
    /\ ObsIdle

\* the client thread is not inside a blocking get_all_results_for_ids
ClientFree == fetch.state # "running"

\* GlobusComputeCloudManager.get_target_parallelism
GlobusTargetParallelism(ids, execs) ==
    IF ids = <<>> \/ execs = {} THEN 0 ELSE Len(ids)

\* LocalCloudManager.submit_task: _ensure_pool_initialized() has given the
\* manager a pool, whatever its state before
LocalSubmitHasPool(open) == TRUE

\* GlobusComputeCloudManager.submit_task: the test of _executors and
\* active_endpoint_ids passes
GlobusSubmitHasExecutors(ids, execs) == execs # {} /\ ids # <<>>

\* submit_task(serialized_function_bytes, data_chunk) on a shipped pool;
\* accepted: apply_async / executor.submit does not raise
PoolSubmit(fn, chunk, accepted) ==
    /\ ClientFree
    /\ LET usable == IF pool_kind = "local"
                     THEN LocalSubmitHasPool(pool_open)
                     ELSE GlobusSubmitHasExecutors(active_endpoint_ids,
                                                   executors)
           ok == usable /\ accepted
           \* the registry submit_task works on: _ensure_pool_initialized
           \* starts a new pool with an empty registry
           registry == IF pool_kind = "local" /\ ~pool_open
                       THEN <<>> ELSE active_tasks
       IN /\ pool_open' = IF pool_kind = "local" /\ usable
                          THEN TRUE ELSE pool_open
          /\ next_endpoint_idx' = IF pool_kind = "globus" /\ usable
                                  THEN next_endpoint_idx + 1
                                  ELSE next_endpoint_idx
          /\ active_tasks' =
                IF ok
                THEN (next_task_id :>
                        [chunk |-> chunk, fn |-> fn,
                         worker |-> IF pool_kind = "globus"
                                    THEN SelectEndpoint(next_endpoint_idx,
                                            Len(active_endpoint_ids))
                                    ELSE 0,
                         done |-> FALSE, result |-> PyNone]) @@ registry
                ELSE registry
          \* the task id (uuid4) is drawn before apply_async / submit
          /\ next_task_id' = IF usable THEN next_task_id + 1
                             ELSE next_task_id
          /\ last_op' = [op |-> "submit", raised |-> ~ok,
                         id |-> IF ok THEN next_task_id ELSE NoId,
                         after_shutdown |-> shut]
    /\ fetch' = NoFetch
    /\ UNCHANGED <<poolVars, masterVars, pool_kind, active_endpoint_ids,
                   executors, shut, stale_ids>>

LocalShutdownKeepsTasks(open, tasks) == [open |-> FALSE, tasks |-> tasks]

\* LocalCloudManager.shutdown
LocalShutdown(open, tasks) ==
    IF open THEN [open |-> FALSE, tasks |-> <<>>]
    ELSE [open |-> open, tasks |-> tasks]

ShutdownExecutorsKeepsTasks(execs, tasks) ==
    [executors |-> {}, tasks |-> tasks]

\* GlobusComputeCloudManager.shutdown_executors
ShutdownExecutors(execs, tasks) ==
    IF execs = {} THEN [executors |-> execs, tasks |-> tasks]
    ELSE [executors |-> {}, tasks |-> <<>>]

\* the workers have finished what was submitted: pool.join() and
\* executor.shutdown(wait=True) return
Drained == \A id \in DOMAIN active_tasks : active_tasks[id].done

\* shutdown() of a shipped pool
PoolShutdown ==
    /\ ClientFree
    /\ Drained
    /\ IF pool_kind = "local"
       THEN LET r == LocalShutdown(pool_open, active_tasks)
            IN /\ pool_open' = r.open
               /\ active_tasks' = r.tasks
               /\ UNCHANGED executors
       ELSE LET r == ShutdownExecutors(executors, active_tasks)
            IN /\ executors' = r.executors
               /\ active_tasks' = r.tasks
               /\ UNCHANGED pool_open
    /\ shut' = TRUE
    /\ stale_ids' = 1..(next_task_id - 1)
    /\ last_op' = [op |-> "shutdown", raised |-> FALSE, id |-> NoId,
                   after_shutdown |-> shut]
    /\ fetch' = NoFetch
    /\ UNCHANGED <<poolVars, masterVars, next_endpoint_idx, next_task_id,
                   pool_kind, active_endpoint_ids>>

\* GlobusComputeCloudManager._initialize_executors(endpoint_ids_to_init),
\* as called when the endpoints are configured again; usable: the endpoints
\* for which Executor(...) does not raise
PoolInitializeExecutors(endpoint_ids_to_init, usable) ==
    /\ ClientFree
    /\ Drained
    /\ pool_kind = "globus"
    /\ LET r == ShutdownExecutors(executors, active_tasks)
           new_active_ids == NewActiveIds(endpoint_ids_to_init, usable)
       IN /\ active_tasks' = r.tasks
          /\ active_endpoint_ids' = new_active_ids
          /\ executors' = Range(new_active_ids)
    /\ shut' = FALSE
    /\ stale_ids' = 1..(next_task_id - 1)
    /\ last_op' = [op |-> "init", raised |-> FALSE, id |-> NoId,
                   after_shutdown |-> shut]
    /\ fetch' = NoFetch
    /\ UNCHANGED <<poolVars, masterVars, next_endpoint_idx, next_task_id,
                   pool_kind, pool_open>>

PrependOutcome(out, o) == <<o>> \o out

\* outcomes.append(o)
AppendOutcome(out, o) == Append(out, o)

UnknownId(id) == PyExc("KeyError", <<id>>)

TimedOut(id) == PyExc("TimeoutError", <<id>>)

\* get_all_results_for_ids(task_ids, timeout_per_task) up to its loop
GetAllResultsBegin(ids, timeout) ==
    /\ ClientFree
    /\ LET f == IF pool_kind = "local" /\ ~pool_open /\ active_tasks # <<>>
                THEN [state |-> "raised", ids |-> ids, timeout |-> timeout,
                      out |-> <<>>]
                ELSE IF pool_kind = "local" /\ active_tasks = <<>>
                        /\ ids # <<>>
                THEN [state |-> "returned", ids |-> ids, timeout |-> timeout,
                      out |-> [k \in 1..Len(ids) |-> UnknownId(ids[k])]]
                ELSE [state |-> IF ids = <<>> THEN "returned" ELSE "running",
                      ids |-> ids, timeout |-> timeout, out |-> <<>>]
       IN /\ fetch' = f
          /\ last_op' = [op |-> "fetch", raised |-> f.state = "raised",
                         id |-> NoId, after_shutdown |-> shut]
    /\ UNCHANGED <<poolVars, masterVars, active_tasks, next_endpoint_idx,
                   next_task_id, pool_kind, pool_open, active_endpoint_ids,
                   executors, shut, stale_ids>>

PoolFetchBegin(ids, timeout) ==
    \* a collection made right after a collection reads the same registry
    \* as one made in its place: only the latter is explored
    /\ fetch.state = "none"
    \* the ids asked for: issued ones, and one never issued
    /\ \A k \in DOMAIN ids : ids[k] <= next_task_id
    /\ GetAllResultsBegin(ids, timeout)

ForgetCollected(tasks, id) == [i \in DOMAIN tasks \ {id} |-> tasks[i]]

\* _active_tasks after the outcome of id was read: the entry stays (the
\* "del self._active_tasks[task_id]" is commented out)
RegistryAfterCollect(tasks, id) == tasks

\* One iteration of the loop over task_ids: an unknown id gives a KeyError
\* entry; otherwise the blocking get/result call returns the task's outcome
\* or, when a timeout was given and the task is not done, times out.
PoolFetchStep(expired) ==
    /\ fetch.state = "running"
    /\ LET id == fetch.ids[Len(fetch.out) + 1]
           known == id \in DOMAIN active_tasks
           ready == known /\ active_tasks[id].done
       IN /\ IF expired THEN fetch.timeout /\ known /\ ~ready
             ELSE ~known \/ ready
          /\ LET o == IF ~known THEN UnknownId(id)
                      ELSE IF ready THEN active_tasks[id].result
                      ELSE TimedOut(id)
                 out == AppendOutcome(fetch.out, o)
             IN fetch' = [fetch EXCEPT
                    !.out = out,
                    !.state = IF Len(out) = Len(fetch.ids)
                              THEN "returned" ELSE "running"]
          /\ active_tasks' = RegistryAfterCollect(active_tasks, id)
    /\ UNCHANGED <<poolVars, masterVars, next_endpoint_idx,
                   next_task_id, pool_kind, pool_open, active_endpoint_ids,
                   executors, shut, stale_ids, last_op>>

\* the chunks the pool's tasks are tried with: the task of the first returns
\* its chunk, the task of the second raises
PoolChunks == {<<1>>, <<2>>}

PoolNext ==
    \/ /\ next_task_id <= MaxPoolTasks
       /\ \E chunk \in PoolChunks, accepted \in BOOLEAN :
            PoolSubmit("fail_on_2", chunk, accepted)
       /\ UNCHANGED obsVars
    \/ \E id \in TaskIds : Resolve(id)
    \/ PoolShutdown /\ UNCHANGED obsVars
    \/ /\ \E l \in EndpointLists, u \in SUBSET Endpoints :
            PoolInitializeExecutors(l, u)
       /\ UNCHANGED obsVars
    \/ /\ \E ids \in FetchLists, timeout \in BOOLEAN :
            PoolFetchBegin(ids, timeout)
       /\ UNCHANGED obsVars
    \/ /\ \E expired \in BOOLEAN : PoolFetchStep(expired)
       /\ UNCHANGED obsVars

PoolSpec == PoolInit /\ [][PoolNext]_vars

\* ------------------------------------------- the remote pool from __init__
\* GlobusComputeCloudManager from its construction: the endpoint ids given
\* or read from the configuration file, the endpoints' reported statuses,
\* and the endpoints submit_task selects.
MaxRemoteTasks == 3

\* What config_file_path holds: no file, a file that is not JSON, JSON that
\* is not an object, an object whose "globus_compute_endpoint_ids" is not a
\* list of strings (ids: what it holds instead), an object without the key,
\* or a well-formed file.
ConfigFiles ==
    {[kind |-> k, ids |-> <<>>] :
        k \in {"missing", "undecodable", "not_an_object", "no_key"}}
    \cup {[kind |-> "wrong_shape", ids |-> <<"ep1">>]}
    \cup {[kind |-> "ok", ids |-> l] : l \in EndpointLists}

LoadConfigNoShapeCheck(config) ==
    IF config.kind \in {"ok", "wrong_shape"} THEN config.ids ELSE <<>>

\* _load_config_from_file(config_path)
LoadConfigFromFile(config) ==
    IF config.kind = "ok" THEN config.ids ELSE <<>>

\* the arguments of __init__
CtorArgs == [endpoint_ids : EndpointLists, config : ConfigFiles]

\* loaded_ids in __init__
LoadedIds(args) ==
    IF args.endpoint_ids # <<>> THEN args.endpoint_ids
    ELSE LoadConfigFromFile(args.config)

EndpointStatuses == [Endpoints -> {"online", "offline"}]

RemoteInit ==
    /\ pool_api = "BaseCloudManager"
    /\ pool_kind = "globus"
    /\ num_workers = MaxWorkers
    /\ pool_open = FALSE
    /\ ctor \in CtorArgs
    /\ endpoint_status \in EndpointStatuses
    \* _initialize_executors is called when loaded_ids is not empty; with
    \* no id to initialise it would leave the same state
    /\ \E usable \in SUBSET Endpoints :
            active_endpoint_ids = NewActiveIds(LoadedIds(ctor), usable)
    /\ executors = Range(active_endpoint_ids)
    /\ shut = FALSE
    /\ stale_ids = {}
    /\ last_op = NoOp
    /\ fetch = NoFetch
    /\ strategy = "list"
    /\ active_tasks = <<>>
    /\ next_endpoint_idx = 0
    /\ next_task_id = 1
    /\ pc = "idle"
    /\ raised = ""
    /\ user_fn = "echo"
    /\ data_chunks = <<>>
    /\ next_i = 1
    /\ collected = <<>>
    /\ tasks_for_result_collection = <<>>
    /\ task_metadata = <<>>
    /\ run_result = <<>>
    /\ submit_log = <<>>
    /\ runs = 0
    /\ data_input = <<>>
    /\ arg_fn = "echo"
    /\ split_called = FALSE
    /\ reduce_calls = <<>>
    /\ reduce_out = [state |-> "none", value |-> PyNone, agg |-> ""]
    /\ part_in = [strategy |-> "list", xs |-> <<>>, K |-> 1]
    /\ part_out = [state |-> "none", chunks |-> <<>>]
    /\ selections = <<>>
    /\ reconfigured = FALSE
    /\ scope = NoScope
    /\ earlier_fetch = NoFetch
    /\ collect_log = NoCollect

\* submit_task on the remote pool, and the position it selected when it
\* got as far as the selection
RemoteSubmit(fn, chunk, accepted) ==
    /\ pool_kind = "globus"
    /\ PoolSubmit(fn, chunk, accepted)
    /\ selections' =
        IF GlobusSubmitHasExecutors(active_endpoint_ids, executors)
        THEN Append(selections,
                    SelectEndpoint(next_endpoint_idx,
                                   Len(active_endpoint_ids)))
        ELSE selections
    /\ UNCHANGED <<endpoint_status, ctor, reconfigured, scope, earlier_fetch,
                   collect_log>>

\* configure_endpoints_interactive: the executors are initialised again
RemoteConfigure(endpoint_ids_to_init, usable) ==
    /\ PoolInitializeExecutors(endpoint_ids_to_init, usable)
    /\ reconfigured' = TRUE
    /\ UNCHANGED <<endpoint_status, ctor, selections, scope, earlier_fetch,
                   collect_log>>

RemoteNext ==
    \/ /\ next_task_id <= MaxRemoteTasks
       /\ \E chunk \in PoolChunks, accepted \in BOOLEAN :
            RemoteSubmit("fail_on_2", chunk, accepted)
    \/ \E id \in TaskIds : Resolve(id)
    \/ PoolShutdown /\ UNCHANGED obsVars
    \/ \E l \in EndpointLists, u \in SUBSET Endpoints : RemoteConfigure(l, u)

RemoteSpec == RemoteInit /\ [][RemoteNext]_vars

\* ------------------------------------------------------ "with pool:"
\* A client uses a shipped pool as a context manager: __enter__, submits
\* inside the block, then the block ends normally or by an exception and
\* __exit__ runs.
BodyExceptions == {"", "ValueError"}

ExitSuppressesAll(exc) == TRUE

\* __exit__ returns a true value: it has no return statement
ExitSuppresses(exc) == FALSE

\* __enter__
ScopeEnter ==
    /\ scope.state = "none"
    /\ scope' = [scope EXCEPT !.state = "inside"]
    /\ UNCHANGED <<poolVars, masterVars, active_tasks, next_endpoint_idx,
                   next_task_id, lifeVars, endpoint_status, ctor,
                   selections, reconfigured, earlier_fetch, collect_log>>

\* a submit_task call in the block
ScopeSubmit(fn, chunk, accepted) ==
    /\ scope.state = "inside"
    /\ PoolSubmit(fn, chunk, accepted)
    /\ UNCHANGED obsVars

\* The block is left, normally (exc = "") or by the exception exc:
\* __exit__(exc_type, exc_val, exc_tb) calls shutdown(), and the with
\* statement re-raises exc unless __exit__ returned a true value.
ScopeExit(exc) ==
    /\ scope.state = "inside"
    /\ PoolShutdown
    /\ scope' = [state |-> "left", exc |-> exc,
                 propagated |-> IF exc # "" /\ ~ExitSuppresses(exc)
                                THEN exc ELSE ""]
    /\ UNCHANGED <<endpoint_status, ctor, selections, reconfigured,
                   earlier_fetch, collect_log>>

ScopeNext ==
    \/ ScopeEnter
    \/ /\ next_task_id <= MaxPoolTasks
       /\ \E chunk \in PoolChunks, accepted \in BOOLEAN :
            ScopeSubmit("fail_on_2", chunk, accepted)
    \/ \E id \in TaskIds : Resolve(id)
    \/ \E exc \in BodyExceptions : ScopeExit(exc)

ScopeSpec == PoolInit /\ [][ScopeNext]_vars

\* ------------------------------------------------- collecting again
\* A shipped pool whose client collects more than once: a collection that
\* returned is kept to compare later collections with, until the registry
\* is cleared by shutdown or by a new initialisation of the executors.
NeverIssued == MaxPoolTasks + 1

\* the id lists asked for, and asked for again: the first tasks of the
\* pool in both orders, one of them twice, and an unknown id
AgainLists == {<<1>>, <<1, 2>>, <<2, 1>>, <<2, 2>>, <<NeverIssued, 1>>}

\* the collection just returned may be the one later ones are compared to
KeepEarlier(earlier, f) ==
    IF f.state = "returned" THEN {earlier, f} ELSE {earlier}

AgainSubmit(fn, chunk, accepted) ==
    /\ PoolSubmit(fn, chunk, accepted)
    /\ UNCHANGED obsVars

AgainShutdown ==
    /\ PoolShutdown
    /\ earlier_fetch' = NoFetch
    /\ UNCHANGED <<endpoint_status, ctor, selections, reconfigured, scope,
                   collect_log>>

AgainInitializeExecutors(endpoint_ids_to_init, usable) ==
    /\ PoolInitializeExecutors(endpoint_ids_to_init, usable)
    /\ earlier_fetch' = NoFetch
    /\ UNCHANGED <<endpoint_status, ctor, selections, reconfigured, scope,
                   collect_log>>

\* get_all_results_for_ids on ids that were issued or never will be; once
\* a collection is kept, the client asks for its ids again
AgainFetchBegin(ids, timeout) ==
    /\ \A k \in DOMAIN ids : ids[k] < next_task_id \/ ids[k] = NeverIssued
    /\ earlier_fetch = NoFetch \/ ids = earlier_fetch.ids
    /\ GetAllResultsBegin(ids, timeout)
    /\ LET f == fetch' IN earlier_fetch' \in KeepEarlier(earlier_fetch, f)
    /\ UNCHANGED <<endpoint_status, ctor, selections, reconfigured, scope,
                   collect_log>>

AgainFetchStep(expired) ==
    /\ PoolFetchStep(expired)
    /\ LET f == fetch' IN earlier_fetch' \in KeepEarlier(earlier_fetch, f)
    /\ UNCHANGED <<endpoint_status, ctor, selections, reconfigured, scope,
                   collect_log>>

AgainNext ==
    \/ /\ next_task_id <= MaxPoolTasks
       /\ \E chunk \in PoolChunks, accepted \in BOOLEAN :
            AgainSubmit("fail_on_2", chunk, accepted)
    \/ \E id \in TaskIds : Resolve(id)
    \/ AgainShutdown
    \/ \E l \in EndpointLists, u \in SUBSET Endpoints :
            AgainInitializeExecutors(l, u)
    \/ \E ids \in AgainLists, timeout \in BOOLEAN :
            AgainFetchBegin(ids, timeout)
    \/ \E expired \in BOOLEAN : AgainFetchStep(expired)

AgainSpec == PoolInit /\ [][AgainNext]_vars

\* ------------------------------------------- run on a misbehaving pool
\* Master.run against any pool with the interface of master.py: besides
\* accepting or refusing a chunk, submit_task may return None as the task
\* id, and get_results_for_ids may raise or return fewer or more outcomes
\* than it was given ids.
MaxChunks == IF MaxItems > MaxWorkers THEN MaxItems ELSE MaxWorkers

\* One iteration of the submission loop when submit_task returns None.
SubmitChunkNoId ==
    /\ pc = "submit"
    /\ next_i <= Len(data_chunks)
    /\ LET i == next_i
       IN /\ tasks_for_result_collection' =
                Append(tasks_for_result_collection,
                       [original_index |-> i, id |-> NoId])
          /\ task_metadata' = Append(task_metadata,
                [id |-> NoId, chunk_index |-> i, status |-> "submitted",
                 detail |-> PyNone])
          /\ submit_log' = Append(submit_log,
                [chunk_index |-> i, raised |-> FALSE, id |-> NoId])
          /\ next_i' = NextChunk(i, TRUE)
          /\ pc' = IF next_i' > Len(data_chunks) THEN "collect" ELSE "submit"
    /\ UNCHANGED <<poolVars, active_tasks, next_endpoint_idx, next_task_id,
                   raised, user_fn, data_chunks, collected, run_result,
                   runs, runArgs, reduceVars, partVars, lifeVars, obsVars>>

\* the error get_results_for_ids raises
CollectError == PyExc("RuntimeError:collect", <<>>)

\* err_msg
CountError == PyExc("RuntimeError:inconsistent_count", <<>>)

\* an outcome returned beyond those of the ids asked for
ExtraOutcome == PyInt(0)

\* task_outcomes: the first count of the outcomes of the ids followed by
\* an extra one
PoolOutcomes(ids, count) ==
    SubSeq(Append(GetAllResultsForIds(ids), ExtraOutcome), 1, count)

\* processed_ids_indices: a later task with the same id replaces the entry
ProcessedIdsIndices(tasks) ==
    [id \in {tasks[k].id : k \in DOMAIN tasks} |->
        LET last == CHOOSE k \in DOMAIN tasks :
                        /\ tasks[k].id = id
                        /\ \A j \in DOMAIN tasks : tasks[j].id = id => j <= k
        IN tasks[last].original_index]

\* The loop "for k, outcome_idx in enumerate(range(len(task_outcomes)))" of
\* the branch for inconsistent counts; error: the exception that ended it.
RECURSIVE RecordMismatched(_, _, _, _)
RecordMismatched(outcomes, ids, k, st) ==
    IF k > Len(outcomes) THEN st
    ELSE IF k > Len(ids)
    THEN [st EXCEPT !.error = PyExc("IndexError", <<k>>)]
    ELSE IF ids[k] \notin DOMAIN st.remaining
    THEN [st EXCEPT !.error = PyExc("KeyError", <<ids[k]>>)]
    ELSE LET task_id_processed == ids[k]
             original_chunk_idx == st.remaining[task_id_processed]
             outcome == outcomes[k]
             status == IF IsException(outcome) THEN "failed" ELSE "completed"
         IN RecordMismatched(outcomes, ids, k + 1,
               [collected |-> [st.collected EXCEPT
                                  ![original_chunk_idx] = outcome],
                meta |-> SetMeta(st.meta, task_id_processed, status, outcome),
                remaining |-> [id \in DOMAIN st.remaining
                                         \ {task_id_processed} |->
                                    st.remaining[id]],
                error |-> st.error])

\* The loop over processed_ids_indices.items(): the ids left over get
\* err_msg.
RECURSIVE FailRemaining(_)
FailRemaining(st) ==
    IF DOMAIN st.remaining = {} THEN st
    ELSE LET remaining_task_id == CHOOSE id \in DOMAIN st.remaining : TRUE
         IN FailRemaining(
               [collected |-> [st.collected EXCEPT
                    ![st.remaining[remaining_task_id]] = CountError],
                meta |-> SetMeta(st.meta, remaining_task_id, "failed",
                                 CountError),
                remaining |-> [id \in DOMAIN st.remaining
                                         \ {remaining_task_id} |->
                                    st.remaining[id]],
                error |-> st.error])

CaughtUnlessIndexError(e) == e.type # "IndexError"

\* "except Exception as e_collect" catches what the try block raised
CaughtByExcept(e) == TRUE

\* The handler of e_collect: the loop over tasks_for_result_collection.
RECURSIVE FailUncollected(_, _, _, _)
FailUncollected(e, tasks, k, st) ==
    IF k > Len(tasks) THEN st
    ELSE LET original_chunk_index == tasks[k].original_index
             m == MetaRecord(st.meta, tasks[k].id)
         IN IF st.collected[original_chunk_index] = PyNone
            THEN FailUncollected(e, tasks, k + 1,
                    [st EXCEPT
                        !.collected[original_chunk_index] = e,
                        !.meta = IF m # 0 /\ st.meta[m].status = "submitted"
                                 THEN SetMeta(st.meta, tasks[k].id,
                                              "failed", e)
                                 ELSE st.meta])
            ELSE FailUncollected(e, tasks, k + 1, st)

\* The try block of the collection: collected_results_ordered and
\* _task_metadata when it ends, and the exception that ended it (None when
\* it ran to its end).
TryCollect(ids, tasks, raises, count, st0) ==
    IF raises THEN [st0 EXCEPT !.error = CollectError]
    ELSE LET task_outcomes == PoolOutcomes(ids, count)
         IN IF Len(task_outcomes) # Len(ids)
            THEN LET r == RecordMismatched(task_outcomes, ids, 1, st0)
                 IN IF r.error = PyNone THEN FailRemaining(r) ELSE r
            ELSE LET r == RecordOutcomes(task_outcomes, tasks, 1,
                              [collected |-> st0.collected,
                               meta |-> st0.meta])
                 IN [st0 EXCEPT !.collected = r.collected, !.meta = r.meta]

\* The collection and the finalisation of run on a pool whose
\* get_results_for_ids raises (raises) or returns count outcomes.
CollectFrom(raises, count) ==
    /\ pc = "collect"
    /\ LET ids == TaskIdsToFetch(tasks_for_result_collection)
           st0 == [collected |-> collected, meta |-> task_metadata,
                   remaining |->
                        ProcessedIdsIndices(tasks_for_result_collection),
                   error |-> PyNone]
       IN /\ ResultsReady(ids)
          /\ count <= Len(ids) + 1
          \* "if task_ids_to_fetch:": no id, no call
          /\ ids = <<>> => ~raises /\ count = 0
          /\ LET tried == IF ids = <<>> THEN st0
                          ELSE TryCollect(ids, tasks_for_result_collection,
                                          raises, count, st0)
                 escaped == tried.error # PyNone
                                /\ ~CaughtByExcept(tried.error)
                 st == IF tried.error = PyNone \/ escaped THEN tried
                       ELSE FailUncollected(tried.error,
                                tasks_for_result_collection, 1, tried)
             IN /\ collected' = st.collected
                /\ task_metadata' = st.meta
                /\ run_result' = IF escaped THEN <<>>
                                 ELSE Finalize(st.collected)
                /\ pc' = IF escaped THEN "raised" ELSE "done"
                /\ raised' = IF escaped THEN tried.error.type ELSE raised
          /\ collect_log' = [called |-> ids # <<>>, raised |-> raises,
                             count |-> count]
    /\ UNCHANGED <<poolVars, active_tasks, next_endpoint_idx, next_task_id,
                   user_fn, data_chunks, next_i,
                   tasks_for_result_collection, submit_log, runs, runArgs,
                   reduceVars, partVars, lifeVars, endpoint_status, ctor,
                   selections, reconfigured, scope, earlier_fetch>>

FaultyInit ==
    /\ Init
    /\ pool_api = "CloudManager"
    /\ num_workers > 0

FaultyNext ==
    \/ \E n \in 0..MaxItems, fn \in CallableFunctions : FirstRun(n, fn)
    \/ \E accepted \in BOOLEAN : SubmitChunk(accepted)
    \/ SubmitChunkNoId
    \/ \E id \in TaskIds : Resolve(id)
    \/ \E raises \in BOOLEAN, count \in 0..(MaxChunks + 1) :
            CollectFrom(raises, count)

FaultySpec == FaultyInit /\ [][FaultyNext]_vars

\* ================================================================== claims
N == Len(data_chunks)

Returned == pc = "done"

\* the entry of the submission log for chunk i (0 when chunk i was not tried)
LogEntry(i) ==
    IF \E k \in DOMAIN submit_log : submit_log[k].chunk_index = i
    THEN CHOOSE k \in DOMAIN submit_log : submit_log[k].chunk_index = i
    ELSE 0

\* a task was accepted by the pool for chunk i
Submitted(i) == LogEntry(i) # 0 /\ ~submit_log[LogEntry(i)].raised

SubmitRaised(i) == LogEntry(i) # 0 /\ submit_log[LogEntry(i)].raised

TaskOf(i) == active_tasks[submit_log[LogEntry(i)].id]

\* what the user function did on chunk i
UserOutcome(i) == CallUser(user_fn, data_chunks[i])

\* the outcome of chunk i: of its task, or the error of its submission
OwnOutcome(i) == IF Submitted(i) THEN TaskOf(i).result ELSE SubmitError(i)

\* the chunk indices whose task is submitted and not yet completed
Live == {i \in 1..N : Submitted(i) /\ ~TaskOf(i).done}

\* C1: when run returns, the result list has one entry per chunk and no
\* entry is None: every entry is a value or an error object.
C1_EverySlotPopulated ==
    Returned =>
        /\ Len(run_result) = N
        /\ \A i \in 1..N : run_result[i] # PyNone /\ run_result[i].tag # "None"

\* run returned for at least two chunks, one whose task returned None and one
\* whose task failed
C1_Witness ==
    /\ Returned
    /\ N >= 2
    /\ \E i, j \in 1..N :
        /\ Submitted(i) /\ TaskOf(i).result = PyNone
        /\ Submitted(j) /\ IsException(TaskOf(j).result)

\* C2: when run returns, slot i holds the outcome of the task submitted for
\* chunk i, whatever the order in which the tasks completed.
C2_SlotIsOutcomeOfItsTask ==
    Returned => \A i \in 1..N : Submitted(i) => run_result[i] = TaskOf(i).result

\* C3: when the task of chunk i succeeded with value v (None included),
\* slot i equals v and is not an error object.
C3_SuccessfulValueKept ==
    Returned =>
        \A i \in 1..N :
            (Submitted(i) /\ ~UserOutcome(i).raised) =>
                /\ run_result[i] = UserOutcome(i).value
                /\ ~IsException(run_result[i])

\* C4: when the task of chunk i failed, run still returns (it never raises
\* once tasks are submitted), slot i holds that error, and every other slot j
\* holds chunk j's own outcome.
C4_TaskErrorDoesNotAbort ==
    /\ (pc = "raised" => submit_log = <<>>)
    /\ Returned =>
        \A i \in 1..N :
            (Submitted(i) /\ UserOutcome(i).raised) =>
                /\ run_result[i] = UserOutcome(i).value
                /\ IsException(run_result[i])
                /\ \A j \in (1..N) \ {i} : run_result[j] = OwnOutcome(j)

\* C5: within one run no chunk index is passed to submit_task twice.
C5_SubmittedAtMostOnce ==
    \A k1, k2 \in DOMAIN submit_log :
        k1 # k2 => submit_log[k1].chunk_index # submit_log[k2].chunk_index

\* run returned after a submission raised and after a task failed
C5_Witness ==
    /\ Returned
    /\ \E i, j \in 1..N :
        /\ SubmitRaised(i)
        /\ Submitted(j) /\ IsException(TaskOf(j).result)

\* C6: when submit_task raised for chunk i, run does not raise, slot i holds
\* the submission error, the status record of chunk i is
\* "submission_failed" with that error, and every later chunk was still
\* passed to submit_task.
C6_SubmitFailureRecorded ==
    /\ (pc = "raised" => \A i \in 1..N : ~SubmitRaised(i))
    /\ \A i \in 1..N :
        SubmitRaised(i) =>
            /\ \E m \in DOMAIN task_metadata :
                /\ task_metadata[m].chunk_index = i
                /\ task_metadata[m].status = "submission_failed"
                /\ task_metadata[m].detail = SubmitError(i)
            /\ Returned =>
                /\ run_result[i] = SubmitError(i)
                /\ \A j \in (i + 1)..N : LogEntry(j) # 0

\* run returned, the submission of the first chunk raised and a later chunk
\* was accepted
C6_Witness ==
    /\ Returned
    /\ N >= 2
    /\ SubmitRaised(1)
    /\ \E j \in 2..N : Submitted(j)

\* C7: the live tasks have pairwise distinct chunk indices and pairwise
\* distinct workers.
C7_OneLiveTaskPerWorker ==
    \A i, j \in Live :
        i # j =>
            /\ submit_log[LogEntry(i)].id # submit_log[LogEntry(j)].id
            /\ TaskOf(i).worker # TaskOf(j).worker

\* C8: after the initial wave of min(|W|, N) submissions, while a chunk is
\* still to be submitted the number of live tasks equals the number of workers.
C8_WorkConservation ==
    (pc = "submit" /\ Len(submit_log) >= Min(num_workers, N)) =>
        Cardinality(Live) = num_workers

\* C9: a run that entered the submission loop returns, and once every chunk
\* has been submitted the number of live tasks never grows and is zero when
\* run returns.
C9_Termination ==
    /\ (pc \in {"submit", "collect"}) ~> Returned
    /\ [][pc = "collect" => Cardinality(Live') <= Cardinality(Live)]_vars
    /\ [](Returned => Live = {})

\* run returned after two or more tasks were accepted by the pool and resolved
C9_Witness ==
    /\ Returned
    /\ Cardinality({i \in 1..N : Submitted(i) /\ TaskOf(i).done}) >= 2

\* C10: with a pool that reports zero workers every run call raises: it
\* returns no list, submits nothing and registers no task.
C10_NoWorkersIsFatal ==
    (num_workers = 0 /\ runs > 0) =>
        /\ pc = "raised"
        /\ submit_log = <<>>
        /\ DOMAIN active_tasks = {}

\* run raised on the worker count of a pool of the expected interface
C10_Witness ==
    /\ num_workers = 0
    /\ pool_api = "CloudManager"
    /\ pc = "raised"
    /\ raised = "RuntimeError"

\* C11: a run call whose user_function is not callable or cannot be
\* serialized raises, and does so before split_data is called and before
\* anything is submitted.
C11_BadFunctionRaisesEarly ==
    (runs > 0 /\ arg_fn \in {"not_callable", "unpicklable"}) =>
        /\ pc = "raised"
        /\ ~split_called
        /\ data_chunks = <<>>
        /\ submit_log = <<>>

\* run raised on its function although the pool and the input were usable
C11_Witness ==
    /\ pc = "raised"
    /\ arg_fn \in {"not_callable", "unpicklable"}
    /\ raised \in {"TypeError", "PicklingError"}
    /\ pool_api = "CloudManager"
    /\ num_workers > 0
    /\ data_input # <<>>

\* the entries of rs that are not error objects, in their order
RECURSIVE NonErrorEntries(_)
NonErrorEntries(rs) ==
    IF rs = <<>> THEN <<>>
    ELSE IF rs[1].tag = "exc" THEN NonErrorEntries(Tail(rs))
    ELSE <<rs[1]>> \o NonErrorEntries(Tail(rs))

Reduced == reduce_out.state # "none"

C13_NothingToReduceGivesNone ==
    (Reduced /\ \A k \in DOMAIN run_result : run_result[k].tag = "exc") =>
        /\ reduce_calls = <<>>
        /\ reduce_out.state = "returned"
        /\ reduce_out.value = PyNone

\* reduce was called on a non-empty list of error objects only
C13_Witness ==
    /\ Reduced
    /\ run_result # <<>>
    /\ \A k \in DOMAIN run_result : run_result[k].tag = "exc"

\* C14: when the aggregator raises, reduce raises that same error.
C14_AggregatorErrorPropagates ==
    (Reduced /\ Len(reduce_calls) = 1) =>
        LET r == CallAggregator(reduce_out.agg, reduce_calls[1])
        IN r.raised =>
            /\ reduce_out.state = "raised"
            /\ reduce_out.value = r.value

\* reduce raised the aggregator's error
C14_Witness ==
    /\ Reduced
    /\ Len(reduce_calls) = 1
    /\ reduce_out.state = "raised"

\* every chunk of the run was accepted by the pool
AllAccepted == \A i \in 1..N : Submitted(i)

\* a run with the echo function, all chunks accepted, reduced by
\* concatenation
EchoRoundTrip ==
    /\ Reduced
    /\ arg_fn = "echo"
    /\ reduce_out.agg = "concat"
    /\ AllAccepted

\* C15 as stated: the round trip gives back the input for every input,
\* whatever its length.
C15_RoundTripAnyInput ==
    EchoRoundTrip =>
        reduce_out.state = "returned" /\ reduce_out.value = PyList(data_input)

\* C15 as amended: the round trip gives back every non-empty input.
C15_RoundTripNonEmptyInput ==
    (EchoRoundTrip /\ data_input # <<>>) =>
        reduce_out.state = "returned" /\ reduce_out.value = PyList(data_input)

\* a round trip over an input of two items split into two chunks
C15_Witness ==
    /\ EchoRoundTrip
    /\ Len(data_input) >= 2
    /\ N >= 2

\* the run of scenario s has been called
InScenario(s) ==
    /\ runs > 0
    /\ strategy = "list"
    /\ num_workers = s.workers
    /\ data_input = s.input
    /\ arg_fn = s.fn

\* C16: scenario A on the shipped local pool: run calls only operations the
\* pool provides (so it does not raise), the returned list is [6, 9, 13]
\* and reduce with sum gives 28.
C16_ScenarioAOnLocalPool ==
    (InScenario(ScenarioA) /\ pool_api = LocalPool) =>
        /\ pc # "raised"
        /\ (pc = "done" /\ AllAccepted) =>
                run_result = <<PyInt(6), PyInt(9), PyInt(13)>>
        /\ (Reduced /\ AllAccepted /\ reduce_out.agg = "sum") =>
                reduce_out.state = "returned" /\ reduce_out.value = PyInt(28)

\* scenario D has run to its end with every chunk accepted and was reduced
\* with sum
ScenarioDReduced ==
    /\ InScenario(ScenarioD)
    /\ AllAccepted
    /\ Reduced
    /\ reduce_out.agg = "sum"

\* C17 as stated: in scenario D the first entry is a value, the second the
\* error of the failed task, and reduce sums the successful entries.
C17_ScenarioDValueThenError ==
    ScenarioDReduced =>
        /\ Len(run_result) = 2
        /\ run_result[1].tag = "int"
        /\ run_result[2] = PyExc("UserError", data_chunks[2])
        /\ reduce_out.state = "returned"
        /\ reduce_out.value = run_result[1]

\* C17 as amended: the chunks are [10,20] and [30], so the first entry is
\* the error of the failed task, the second the value 30, and reduce with
\* sum gives 30.
C17_ScenarioDErrorThenValue ==
    ScenarioDReduced =>
        /\ Len(run_result) = 2
        /\ run_result[1] = PyExc("UserError", <<10, 20>>)
        /\ run_result[2] = PyInt(30)
        /\ reduce_out.state = "returned"
        /\ reduce_out.value = PyInt(30)

C17_Witness ==
    /\ ScenarioDReduced
    /\ pc = "done"
    /\ \A id \in DOMAIN active_tasks : active_tasks[id].done

\* the concatenation of the chunks, in order
RECURSIVE Concat(_)
Concat(chunks) ==
    IF chunks = <<>> THEN <<>> ELSE chunks[1] \o Concat(Tail(chunks))

\* the even-split partitioner was called on a non-empty list with K >= 1
EvenSplitCalled ==
    /\ part_out.state # "none"
    /\ part_in.strategy = "list"
    /\ part_in.xs # <<>>
    /\ part_in.K >= 1

\* C18: on a non-empty list and K >= 1 the even-split partitioner returns
\* exactly K chunks whose concatenation in order is the list (so each is a
\* contiguous slice), and any two chunk sizes differ by at most one.
C18_EvenSplitCoversInput ==
    EvenSplitCalled =>
        /\ part_out.state = "returned"
        /\ Len(part_out.chunks) = part_in.K
        /\ Concat(part_out.chunks) = part_in.xs
        /\ \A i, j \in DOMAIN part_out.chunks :
            Len(part_out.chunks[i]) - Len(part_out.chunks[j]) <= 1

\* a split with a remainder and chunks of more than one item
C18_Witness ==
    /\ EvenSplitCalled
    /\ Len(part_in.xs) % part_in.K # 0
    /\ \E i \in DOMAIN part_out.chunks : Len(part_out.chunks[i]) >= 2

\* C19: with base = n div K and rem = n mod K, the first rem chunks have
\* base+1 items and the remaining K - rem chunks have base items.
C19_LargerChunksFirst ==
    EvenSplitCalled =>
        LET base == Len(part_in.xs) \div part_in.K
            rem == Len(part_in.xs) % part_in.K
        IN /\ DOMAIN part_out.chunks = 1..part_in.K
           /\ \A i \in 1..part_in.K :
                Len(part_out.chunks[i]) = IF i <= rem THEN base + 1 ELSE base

\* a split where some chunks are larger and some smaller
C19_Witness ==
    /\ EvenSplitCalled
    /\ part_in.K >= 3
    /\ Len(part_in.xs) % part_in.K \in 1..(part_in.K - 2)
    /\ Len(part_in.xs) > part_in.K

\* run was called with a usable function on a pool of K workers, with the
\* even-split partitioner and n items, 0 < n < K
FewerItemsThanWorkers ==
    /\ runs > 0
    /\ pool_api = "CloudManager"
    /\ strategy = "list"
    /\ arg_fn \in CallableFunctions
    /\ 0 < Len(data_input)
    /\ Len(data_input) < num_workers

\* C20: with 0 < n < K the chunks are n singletons followed by K - n empty
\* chunks; run calls submit_task once for each of the K chunks, the empty
\* ones included (every accepted task carrying its chunk), and the result
\* list has K entries.
C20_EmptyChunksAreDispatched ==
    FewerItemsThanWorkers =>
        /\ pc # "raised"
        /\ N = num_workers
        /\ \A i \in 1..N :
            data_chunks[i] =
                IF i <= Len(data_input) THEN <<data_input[i]>> ELSE <<>>
        /\ pc \in {"collect", "done"} =>
            /\ Len(submit_log) = num_workers
            /\ \A i \in 1..N :
                /\ LogEntry(i) # 0
                /\ Submitted(i) => TaskOf(i).chunk = data_chunks[i]
        /\ pc = "done" => Len(run_result) = num_workers

\* run returned after a task for an empty chunk was accepted and completed
C20_Witness ==
    /\ FewerItemsThanWorkers
    /\ pc = "done"
    /\ \E i \in 1..N :
        /\ data_chunks[i] = <<>>
        /\ Submitted(i)
        /\ TaskOf(i).done

\* run was called with a usable function on a pool that reports workers
UsableRun ==
    /\ runs > 0
    /\ pool_api = "CloudManager"
    /\ num_workers > 0
    /\ arg_fn \notin {"not_callable", "unpicklable"}

\* C21: for the empty input the even-split partitioner gives no chunk, run
\* returns the empty list without submitting anything, and reduce on that
\* list returns None.
C21_EmptyInputGivesEmptyResult ==
    (UsableRun /\ strategy = "list" /\ data_input = <<>>) =>
        /\ split_called
        /\ data_chunks = <<>>
        /\ pc = "done"
        /\ run_result = <<>>
        /\ submit_log = <<>>
        /\ active_tasks = <<>>
        /\ task_metadata = <<>>
        /\ Reduced =>
            /\ reduce_calls = <<>>
            /\ reduce_out.state = "returned"
            /\ reduce_out.value = PyNone

\* the empty list was run on several workers and its result reduced
C21_Witness ==
    /\ UsableRun
    /\ strategy = "list"
    /\ data_input = <<>>
    /\ num_workers >= 2
    /\ Reduced

\* C22: for K <= 0 the even-split partitioner raises, whatever the input
\* (the empty one included), and returns no chunks.
C22_NonPositiveSplitsRejected ==
    (part_out.state # "none" /\ part_in.strategy = "list" /\ part_in.K <= 0) =>
        /\ part_out.state = "raised"
        /\ part_out.chunks = <<>>

\* the partitioner raised on the empty input
C22_Witness ==
    /\ part_in.strategy = "list"
    /\ part_in.K <= 0
    /\ part_in.xs = <<>>
    /\ part_out.state = "raised"

\* C29: the outcome recorded for a chunk on which the user function raised
\* TypeError is a UserContractViolation error; any other error of the user
\* function is recorded unchanged.
C29_TypeErrorBecomesContractViolation ==
    Returned =>
        \A i \in 1..N :
            (Submitted(i) /\ UserOutcome(i).raised) =>
                IF UserOutcome(i).value.type = "TypeError"
                THEN /\ run_result[i].tag = "exc"
                     /\ run_result[i].type = "UserContractViolation"
                ELSE run_result[i] = UserOutcome(i).value

\* C30: the task-status records are those of the most recent run call: one
\* per submit_task call of that run, for that call's chunk and task id; a run
\* that raises before submitting leaves no record.
C30_StatusesOfLatestRunOnly ==
    /\ Len(task_metadata) = Len(submit_log)
    /\ \A m \in DOMAIN task_metadata :
        /\ task_metadata[m].chunk_index \in 1..N
        /\ task_metadata[m].chunk_index = submit_log[m].chunk_index
        /\ task_metadata[m].id = submit_log[m].id
    /\ pc = "raised" => task_metadata = <<>>

\* a run raised before submitting, after an earlier run had left records
C30_Witness ==
    /\ runs >= 2
    /\ pc = "raised"
    /\ active_tasks # <<>>
    /\ task_metadata = <<>>

C24_SubmitFailsAfterShutdown ==
    (last_op.op = "submit" /\ last_op.after_shutdown) =>
        /\ last_op.raised
        /\ last_op.id = NoId
        /\ active_tasks = <<>>

\* the pool holds no process pool / no executor
PoolClosed == IF pool_kind = "local" THEN ~pool_open ELSE executors = {}

\* C25: shutdown() does not raise and leaves no pool/executors and no
\* registered task; called again right after a shutdown() it changes
\* nothing.
C25_ShutdownIdempotent ==
    [][last_op'.op = "shutdown" =>
            /\ ~last_op'.raised
            /\ PoolClosed'
            /\ active_tasks' = <<>>
            /\ last_op.op = "shutdown" =>
                UNCHANGED <<pool_open, executors, active_tasks,
                            active_endpoint_ids, next_endpoint_idx,
                            next_task_id, num_workers>>]_vars

\* shutdown() was called on a pool already shut down that had issued tasks
C25_Witness ==
    /\ last_op.op = "shutdown"
    /\ last_op.after_shutdown
    /\ stale_ids # {}

\* C26: a result collection made after shutdown() returns an unknown-id
\* error for every id issued before the shutdown, also when tasks submitted
\* after it are registered.
C26_StaleIdsGiveErrors ==
    fetch.state = "returned" =>
        \A k \in DOMAIN fetch.ids :
            fetch.ids[k] \in stale_ids =>
                fetch.out[k] = UnknownId(fetch.ids[k])

\* results were collected for an id issued before the shutdown and for a
\* task submitted after it
C26_Witness ==
    /\ fetch.state = "returned"
    /\ \E j, k \in DOMAIN fetch.ids :
        /\ fetch.ids[j] \in stale_ids
        /\ fetch.ids[k] \in DOMAIN active_tasks
        /\ fetch.out[k] = active_tasks[fetch.ids[k]].result
        /\ active_tasks[fetch.ids[k]].done

\* C27: the worker count the remote pool reports equals the number of
\* active endpoint ids it exposes, in every state.
C27_WorkerCountMatchesIds ==
    pool_kind = "globus" =>
        GlobusTargetParallelism(active_endpoint_ids, executors) =
            Len(active_endpoint_ids)

\* C28: get_all_results_for_ids returns one entry per requested id, in the
\* order of the ids: an unknown-id error for an id not registered, otherwise
\* the outcome of that id's task (its value or error) or, when a timeout was
\* given, a timeout error.
C28_OutcomesMatchIds ==
    fetch.state = "returned" =>
        /\ Len(fetch.out) = Len(fetch.ids)
        /\ \A k \in DOMAIN fetch.ids :
            LET id == fetch.ids[k]
            IN IF id \notin DOMAIN active_tasks
               THEN fetch.out[k] = UnknownId(id)
               ELSE \/ /\ active_tasks[id].done
                       /\ fetch.out[k] =
                            ExecuteTaskInWorker(active_tasks[id].fn,
                                                active_tasks[id].chunk)
                    \/ /\ fetch.timeout
                       /\ fetch.out[k] = TimedOut(id)

\* results were collected for two different tasks, the first timing out and
\* the second giving its outcome
C28_Witness ==
    /\ fetch.state = "returned"
    /\ Len(fetch.ids) = 2
    /\ fetch.ids[1] # fetch.ids[2]
    /\ fetch.out[1] = TimedOut(fetch.ids[1])
    /\ fetch.ids[2] \in DOMAIN active_tasks
    /\ fetch.out[2] = active_tasks[fetch.ids[2]].result

\* ------------------------------------------------------------------ C35
\* C35: within one run the chunks are submitted in strictly increasing
\* order of chunk index, and the wait for the results starts only after the
\* submission of the last chunk has been attempted.
C35_SubmissionInOrderBeforeCollection ==
    /\ \A j, k \in DOMAIN submit_log :
        j < k => submit_log[j].chunk_index < submit_log[k].chunk_index
    /\ pc = "collect" =>
        \A i \in 1..N : \E k \in DOMAIN submit_log :
            submit_log[k].chunk_index = i

\* run is about to collect after two submissions, the first refused
C35_Witness ==
    /\ pc = "collect"
    /\ Len(submit_log) = 2
    /\ submit_log[1].raised
    /\ ~submit_log[2].raised

\* ------------------------------------------------------------------ C31
\* C31: the active worker set of a remote pool holds only endpoints whose
\* reported status is "online": an endpoint that is not online is never
\* active and never receives a task.
C31_OnlyOnlineEndpointsActive ==
    pool_kind = "globus" =>
        /\ \A p \in DOMAIN active_endpoint_ids :
            endpoint_status[active_endpoint_ids[p]] = "online"
        /\ \A id \in DOMAIN active_tasks :
            endpoint_status[active_endpoint_ids[active_tasks[id].worker + 1]]
                = "online"

\* ------------------------------------------------------------------ C36
\* the selections that went to position p of active_endpoint_ids
SelectedCount(p) ==
    Cardinality({k \in DOMAIN selections : selections[k] = p})

\* the list of active endpoints is the one __init__ set up
FixedEndpoints == pool_kind = "globus" /\ ~reconfigured

\* C36: with a fixed list of E >= 1 active endpoints, the k-th submit call
\* that reaches the endpoint selection (k counted from 0 at construction,
\* whether the executor accepts the task or not) selects the endpoint at
\* position k mod E, and the numbers of selections of two positions never
\* differ by more than one.
C36_RoundRobinSelection ==
    FixedEndpoints =>
        LET E == Len(active_endpoint_ids)
        IN /\ \A k \in DOMAIN selections : selections[k] = (k - 1) % E
           /\ \A p, q \in 0..(E - 1) :
                SelectedCount(p) - SelectedCount(q) <= 1

\* three submits reached the selection over two endpoints, the second one
\* refused by its executor: the third wraps around to the first endpoint
C36_Witness ==
    /\ FixedEndpoints
    /\ Len(active_endpoint_ids) = 2
    /\ selections = <<0, 1, 0>>
    /\ DOMAIN active_tasks = {1, 3}

\* ------------------------------------------------------------------ C39
\* __init__ got no endpoint ids and found no usable configuration file
NothingConfigured ==
    /\ pool_kind = "globus"
    /\ ~reconfigured
    /\ ctor.endpoint_ids = <<>>
    /\ ctor.config.kind \in {"missing", "undecodable", "not_an_object",
                             "wrong_shape"}

\* C39: a remote pool constructed without endpoint ids and with a missing,
\* undecodable or wrongly shaped configuration file has no active endpoint
\* and no executor, reports a worker count of 0, and its submit raises.
C39_NoConfigGivesEmptyPool ==
    NothingConfigured =>
        /\ active_endpoint_ids = <<>>
        /\ executors = {}
        /\ GlobusTargetParallelism(active_endpoint_ids, executors) = 0
        /\ last_op.op = "submit" => last_op.raised /\ active_tasks = <<>>

\* a submit was made on a pool constructed over a wrongly shaped file
C39_Witness ==
    /\ NothingConfigured
    /\ ctor.config.kind = "wrong_shape"
    /\ last_op.op = "submit"
    /\ last_op.raised

\* ------------------------------------------------------------------ C38
\* the block of "with pool:" has been left
ScopeLeft == scope.state = "left"

\* C38: when a "with pool:" block is left, normally or by an exception, the
\* pool has been shut down (no pool or executor, empty registry), and an
\* exception raised in the block propagates after the shutdown.
C38_ScopeExitShutsDownAndPropagates ==
    ScopeLeft =>
        /\ last_op.op = "shutdown"
        /\ shut
        /\ PoolClosed
        /\ active_tasks = <<>>
        /\ scope.propagated = scope.exc

\* a block in which a task was accepted was left by an exception
C38_Witness ==
    /\ ScopeLeft
    /\ scope.exc = "ValueError"
    /\ scope.propagated = "ValueError"
    /\ next_task_id > 1
    /\ stale_ids # {}

\* ------------------------------------------------------------------ C37
\* a collection returned, and so did an earlier one for the same ids, with
\* no shutdown or new initialisation in between
CollectedAgain ==
    /\ earlier_fetch.state = "returned"
    /\ fetch.state = "returned"
    /\ fetch.ids = earlier_fetch.ids

\* the step leaves every registered task registered, or it is a shutdown
\* or a new initialisation of the executors
RegistryGrows ==
    \/ DOMAIN active_tasks \subseteq DOMAIN active_tasks'
    \/ last_op'.op \in {"shutdown", "init"}

\* C37 as stated: collecting the same ids twice with no shutdown in between
\* returns the same outcomes, and the registry only grows between
\* shutdowns.
C37_CollectingAgainSameOutcomes ==
    [][/\ RegistryGrows
       /\ CollectedAgain' => fetch'.out = earlier_fetch'.out]_vars

\* C37, amended: collecting the same ids twice with no shutdown in between
\* returns the same outcome for every id that did not time out in the
\* earlier collection, and the registry only grows between shutdowns.
C37_CollectingAgainSameUnlessTimedOut ==
    [][/\ RegistryGrows
       /\ CollectedAgain' =>
            \A k \in DOMAIN fetch'.ids :
                earlier_fetch'.out[k] # TimedOut(fetch'.ids[k]) =>
                    fetch'.out[k] = earlier_fetch'.out[k]]_vars

\* tasks 1 and 2 were collected with a timeout when only task 2 was done,
\* and collected again without timeout
C37_Witness ==
    /\ CollectedAgain
    /\ fetch.ids = <<1, 2>>
    /\ earlier_fetch.timeout
    /\ ~fetch.timeout
    /\ earlier_fetch.out[1] = TimedOut(1)
    /\ fetch.out[1] # TimedOut(1)
    /\ earlier_fetch.out[2] = fetch.out[2]
    /\ {1, 2} \subseteq DOMAIN active_tasks

\* ------------------------------------------------------------------ C32
\* the tasks of this run whose submission returned an id
WithId == SelectSeq(tasks_for_result_collection, LAMBDA t : t.id # NoId)

\* the position of chunk i's task id among the ids asked for, 0 when the
\* chunk has none
FetchPosition(i) ==
    IF \E k \in DOMAIN WithId : WithId[k].original_index = i
    THEN CHOOSE k \in DOMAIN WithId : WithId[k].original_index = i
    ELSE 0

\* the pool returned an outcome for the task of chunk i
HasOutcome(i) ==
    /\ collect_log.called
    /\ ~collect_log.raised
    /\ FetchPosition(i) \in 1..collect_log.count

\* submit_task returned an id or raised, for every chunk
NoNullId == \A k \in DOMAIN submit_log :
                submit_log[k].raised \/ submit_log[k].id # NoId

\* C32: once partitioning has produced N >= 1 chunks, run does not raise
\* and returns a list of N entries, none of them None, whether submit
\* raises for some chunks, the collection raises, or the collection returns
\* fewer or more outcomes than ids; a chunk left without an outcome gets an
\* error object.
C32_RunSurvivesPoolFaults ==
    N >= 1 =>
        /\ pc # "raised"
        /\ Returned =>
            /\ Len(run_result) = N
            /\ \A i \in 1..N :
                /\ run_result[i] # PyNone
                /\ NoNullId /\ ~HasOutcome(i) => IsException(run_result[i])

\* run returned after a refused submit and a collection that returned one
\* outcome more than ids
C32_Witness ==
    /\ Returned
    /\ N = 2
    /\ submit_log[1].raised
    /\ collect_log.called
    /\ collect_log.count = 2
    /\ IsException(run_result[1])

\* ------------------------------------------------------------------ C33
\* the status records of chunk i
RecordsOf(i) == {m \in DOMAIN task_metadata : task_metadata[m].chunk_index = i}

\* C33: after run returns every chunk index has exactly one status record,
\* whose status is 'completed' exactly when the chunk's entry of the result
\* is not an error, and no record is left 'submitted'.
C33_StatusesMatchResults ==
    Returned =>
        \A i \in 1..N :
            /\ Cardinality(RecordsOf(i)) = 1
            /\ \A m \in RecordsOf(i) :
                /\ task_metadata[m].status # "submitted"
                /\ task_metadata[m].status = "completed"
                        <=> ~IsException(run_result[i])

\* ------------------------------------------------------------------ C34
\* C34: when submit returns a null task id for some chunk without raising,
\* every outcome the pool returns is written to the slot of the chunk whose
\* submission produced the id the outcome belongs to.
C34_OutcomeGoesToOwnSlot ==
    Returned /\ collect_log.called /\ ~collect_log.raised
             /\ collect_log.count = Len(WithId) =>
        \A k \in DOMAIN WithId :
            collected[WithId[k].original_index] =
                active_tasks[WithId[k].id].result

====
